---- MODULE Spec2Model ----
(***************************************************************************)
(* Viewport / drawing-interaction core of the charting component.          *)
(*                                                                         *)
(* Spec      : ChartRenderer (renderChart, zoom behaviours, updateChart)   *)
(*             together with chart/drawingTools.ts, the revision of        *)
(*             setupDrawingInteractions that registers its handlers on the *)
(*             svg element and supports selection and deletion.            *)
(* SpecMono  : the self-contained ChartRenderer.tsx, whose own             *)
(*             setupDrawingInteractions uses a drawing-area overlay.       *)
(* SpecHit   : isPointOnLine as a pure function over bounded inputs.       *)
(* SpecAxes  : the listeners of xZoom and yZoom taken on their own.        *)
(* SpecScale : scaleExtent under a sequence of wheel requests.             *)
(* SpecPan   : translateExtent under a sequence of pan gestures.           *)
(* SpecRender: updateChart's elements and indicator calculations.          *)
(* SpecPanels: the vertical bands of price, volume and oscillators.        *)
(* SpecIndicators : the toolbar's addIndicator and removeIndicator.        *)
(* SpecKinds : the drawing handlers with every tool of the toolbar.        *)
(* SpecTouch : the touch listeners of the zoom behaviour.                  *)
(* SpecFib   : isPointOnDrawing for a fibonacci retracement.               *)
(* SpecView  : the oscillator bands under pan and wheel gestures.          *)
(* SpecRsi   : renderRSI's pairing of RSI values with dates.               *)
(* SpecDomain: the time and price domains of renderChart.                  *)
(* Each of these keeps its state in the variable probe and leaves the      *)
(* other variables as Init set them.                                       *)
(*                                                                         *)
(* Units.  Pixels are integers in the coordinate system of the chart group *)
(* g.  Time is in milliseconds.  Prices are in units of 1e-5 (so 0.01 is   *)
(* 1000 units).  Distances of the hit test are computed in fixed point,    *)
(* HitRes units per pixel, with a floor square root.                       *)
(***************************************************************************)
EXTENDS Integers, Sequences, FiniteSets, TLC

None == [null |-> TRUE]

Abs(n) == IF n < 0 THEN 0 - n ELSE n
Min(a, b) == IF a < b THEN a ELSE b
Max(a, b) == IF a > b THEN a ELSE b

RECURSIVE IsqrtIn(_, _, _)
\* floor(sqrt(n)) by bisection on lo..hi, with lo*lo <= n < (hi+1)*(hi+1)
IsqrtIn(n, lo, hi) ==
  IF lo = hi THEN lo
  ELSE LET mid == (lo + hi + 1) \div 2
       IN  IF mid * mid <= n THEN IsqrtIn(n, mid, hi) ELSE IsqrtIn(n, lo, mid - 1)

\* Math.sqrt, rounded down to an integer
Isqrt(n) == IsqrtIn(n, 0, 46340)

(***************************************************************************)
(* Bounds of the model                                                     *)
(***************************************************************************)
MaxDrawings == 2      \* committed drawings kept at most
MaxZoomLevel == 1     \* zoom factor k ranges over 2^0 .. 2^MaxZoomLevel
MaxZoomEvents == 1    \* zoom events (wheel steps, pan moves) per run

(***************************************************************************)
(* renderChart: geometry and base scales                                   *)
(***************************************************************************)
ClientWidth == 340
ClientHeight == 310
MarginTop == 20
MarginRight == 80
MarginBottom == 50
MarginLeft == 60

width == ClientWidth - MarginLeft - MarginRight
height == ClientHeight - MarginTop - MarginBottom

\* extent of the series (d3.extent over the dates, and over all OHLC prices)
DateLo == 0
DateHi == 200000
PriceLo == 1014000
PriceHi == 1154000

pricePadding == (PriceHi - PriceLo) \div 10
YDomainLo == PriceLo - pricePadding
YDomainHi == PriceHi + pricePadding
\* yScale.range()[0] = height * 0.7
YRange0 == (height * 7) \div 10

\* xScale = scaleTime().domain(extent).range([0, width])
XBase(d) == ((d - DateLo) * width) \div (DateHi - DateLo)
XBaseInvert(p) == DateLo + (p * (DateHi - DateLo)) \div width
\* yScale = scaleLinear().domain([lo - pad, hi + pad]).range([height * 0.7, 0])
YBase(v) == YRange0 - ((v - YDomainLo) * YRange0) \div (YDomainHi - YDomainLo)
YBaseInvert(p) == YDomainLo + ((YRange0 - p) * (YDomainHi - YDomainLo)) \div YRange0

(***************************************************************************)
(* Zoom transforms (d3.zoomTransform): [k, x, y]                           *)
(***************************************************************************)
\* where the svg sits in the viewport: the chart container has a left margin
\* of 20px in a narrow window, and the toolbar is above it
SvgLeft == 20
SvgTop == 40

ZoomIdentity == [k |-> 1, x |-> 0, y |-> 0]

\* transform.rescaleX(xScale) / rescaleY(yScale), applied and inverted
XScale(T, d) == XBase(d) * T.k + T.x
YScale(T, v) == YBase(v) * T.k + T.y
XInvert(T, p) == DateLo + ((p - T.x) * (DateHi - DateLo)) \div (T.k * width)
YInvert(T, p) == YDomainLo + ((YRange0 * T.k - (p - T.y)) * (YDomainHi - YDomainLo)) \div (YRange0 * T.k)

(***************************************************************************)
(* d3.zoom, as configured for combinedZoom                                 *)
(***************************************************************************)
Mods == {"none", "shift", "ctrl", "meta"}

\* svg.call(xZoom).call(yZoom).call(combinedZoom): each call installs its
\* listeners under the names wheel.zoom, mousedown.zoom, ..., replacing the
\* listeners of the call before, so the filter in force is combinedZoom's,
\* event.ctrlKey || event.metaKey.
ZoomFilter(mod) == mod \in {"ctrl", "meta"}

\* the axes whose visible domain differs between two transforms
AxesChanged(T1, T2) ==
  (IF T1.k # T2.k \/ T1.x # T2.x THEN {"time"} ELSE {}) \cup
  (IF T1.k # T2.k \/ T1.y # T2.y THEN {"price"} ELSE {})

\* pointer position relative to the svg, of a point given relative to g
SvgX(p) == p.x + MarginLeft
SvgY(p) == p.y + MarginTop

\* one coordinate of d3's default constrain, for viewport extent [0, e] and
\* translate extent [lo, hi]: the translation t kept inside, at scale k
ConstrainAxis(t, k, e, lo, hi) ==
  LET kdx0 == (0 - t) - lo * k     \* k * (invert(0) - lo)
      kdx1 == (e - t) - hi * k     \* k * (invert(e) - hi)
  IN  IF kdx1 > kdx0 THEN t + (kdx0 + kdx1) \div 2
      ELSE IF kdx0 < 0 THEN t + kdx0
      ELSE IF kdx1 > 0 THEN t + kdx1
      ELSE t

\* translateExtent([[-width * 5, -height * 5], [width * 6, height * 6]])
Constrain(T) ==
  [k |-> T.k,
   x |-> ConstrainAxis(T.x, T.k, ClientWidth, 0 - width * 5, width * 6),
   y |-> ConstrainAxis(T.y, T.k, ClientHeight, 0 - height * 5, height * 6)]

\* wheel zoom about the pointer p (svg coordinates) from T to scale k2:
\* translate(scale(T, k2), p, T.invert(p))
WheelExact(T, k2, p) ==
  /\ ((SvgX(p) - T.x) * k2) % T.k = 0
  /\ ((SvgY(p) - T.y) * k2) % T.k = 0

WheelPoint(T, k2, p) ==
  [k |-> k2,
   x |-> SvgX(p) - ((SvgX(p) - T.x) * k2) \div T.k,
   y |-> SvgY(p) - ((SvgY(p) - T.y) * k2) \div T.k]

WheelTransform(T, k2, p) == Constrain(WheelPoint(T, k2, p))

(***************************************************************************)
(* Drawing tools                                                           *)
(***************************************************************************)
\* the tool values of the drawing toolbar
Tools == {"none", "line", "rectangle", "circle", "fibonacci", "horizontal",
          "vertical", "parallel", "pitchfork", "gann", "triangle", "arrow", "text"}

tolerance == 5

\* no element of class chart-zoom-area is created by renderChart
ZoomAreaPresent == FALSE

\* getCurrentDrawingBounds: the transform its scales are rescaled with
BoundsTransform(zt) == IF ZoomAreaPresent THEN zt ELSE ZoomIdentity

drawingWidth == width
drawingHeight == YRange0
\* drawingHeight * 0.75
PlotBottom == (drawingHeight * 3) \div 4

\* the bounds test of mousedown.drawing and click.drawing
OutsidePlot(p) == p.x < 0 \/ p.x > drawingWidth \/ p.y < 0 \/ p.y > PlotBottom

\* the clamp of mousemove.drawing
Constrained(p) == [x |-> Max(0, Min(p.x, drawingWidth)), y |-> Max(0, Min(p.y, PlotBottom))]

\* domain coordinates of a pixel position under transform T
DomainOf(T, p) == [x |-> XInvert(T, p.x), y |-> YInvert(T, p.y)]

MinTimeMove == 1000
MinValueMove == 1000

\* the minimum-movement test of mouseup.drawing
Moved(d) == Abs(d.start.x - d.end.x) > MinTimeMove \/ Abs(d.start.y - d.end.y) > MinValueMove

(***************************************************************************)
(* Hit testing                                                             *)
(***************************************************************************)
HitRes == 100

\* Math.sqrt(dx^2 + dy^2), in 1/HitRes pixels
Dist(dx, dy) == Isqrt(HitRes * HitRes * (dx * dx + dy * dy))

isPointOnLine(px, py, x1, y1, x2, y2, tol) ==
  LET lineLength == Dist(x2 - x1, y2 - y1)
      distanceToStart == Dist(px - x1, py - y1)
      distanceToEnd == Dist(px - x2, py - y2)
  IN  Abs(distanceToStart + distanceToEnd - lineLength) <= tol * HitRes

\* the retracement levels, in thousandths
fibLevels == {0, 236, 382, 500, 618, 786, 1000}

isPointOnDrawing(x, y, d, T) ==
  LET sx == XScale(T, d.start.x)
      sy == YScale(T, d.start.y)
      ex == XScale(T, d.end.x)
      ey == YScale(T, d.end.y)
  IN  CASE d.type = "line" -> isPointOnLine(x, y, sx, sy, ex, ey, tolerance)
        [] d.type = "rectangle" ->
             /\ x >= Min(sx, ex) /\ x <= Min(sx, ex) + Abs(ex - sx)
             /\ y >= Min(sy, ey) /\ y <= Min(sy, ey) + Abs(ey - sy)
        [] d.type = "circle" ->
             Abs(Dist(x - sx, y - sy) - Dist(ex - sx, ey - sy)) <= tolerance * HitRes
        [] d.type = "horizontal" -> Abs(y - sy) <= tolerance
        [] d.type = "vertical" -> Abs(x - sx) <= tolerance
        [] d.type = "fibonacci" ->
             \E level \in fibLevels :
               Abs(1000 * (y - sy) - (ey - sy) * level) <= 1000 * tolerance
        [] OTHER -> FALSE

\* the loop of click.drawing: the index of the drawing found, 0 for null
RECURSIVE FindFrom(_, _, _, _)
FindFrom(i, p, ds, T) ==
  IF i < 1 THEN 0
  ELSE IF isPointOnDrawing(p.x, p.y, ds[i], T) THEN i
  ELSE FindFrom(i - 1, p, ds, T)

\* variant: the loop run from the first element, stopping at the oldest match
foundDrawingOldest(p, ds, T) ==
  LET hits == {i \in 1..Len(ds) : isPointOnDrawing(p.x, p.y, ds[i], T)}
  IN  IF hits = {} THEN 0 ELSE CHOOSE i \in hits : \A j \in hits : i <= j

foundDrawing(p, ds, T) == FindFrom(Len(ds), p, ds, T)

\* variant: pop() in place of splice(index, 1)
SpliceLast(ds, index) == SubSeq(ds, 1, Len(ds) - 1)

\* drawingsRef.current.splice(index, 1)
Splice(ds, index) == [i \in 1..(Len(ds) - 1) |-> IF i < index THEN ds[i] ELSE ds[i + 1]]

(***************************************************************************)
(* Inputs of the model                                                     *)
(***************************************************************************)
\* the tools chosen in the toolbar
UsedTools == {"none", "line"}

PtA == [x |-> 10, y |-> 20]
PtA1 == [x |-> 11, y |-> 21]      \* one pixel from PtA on both axes
PtB == [x |-> 70, y |-> 80]
PtZ == [x |-> 150, y |-> 30]
PtOut == [x |-> 210, y |-> 130]   \* on the svg, outside the plot

\* pointer positions, relative to g
Points == {PtA, PtA1, PtB, PtZ, PtOut}
\* the positions a drag starts from; a press elsewhere is released in place
DragStarts == {PtA}
\* the positions a drag passes through
DragEnds == {PtA1, PtB, PtOut}
\* the positions the wheel is turned at
WheelPoints == {PtA}

Keys == {"Delete", "Backspace", "Escape"}

(***************************************************************************)
(* State                                                                   *)
(***************************************************************************)
VARIABLES
  propMode,      \* the drawingMode state of TradingChart (the toolbar's choice)
  drawings,      \* drawingsRef.current
  zoomT,         \* svg.__zoom, the transform of the zoom behaviour
  seriesT,       \* the transform whose scales drew the series in the last updateChart
  shown,         \* the drawings layer of the live g: the list drawn and its transform
  env,           \* closure of the last setupDrawingInteractions call
  drawEnv,       \* closure owning mousedown/mousemove/mouseup.drawing
  preview,       \* the preview layer of the live g
  btn,           \* where the mouse button went down, None when it is up
  ptr,           \* pointer position
  pan,           \* mouse gesture of the zoom behaviour
  pendingClick,  \* a click event follows the mouseup just dispatched
  nZoom,         \* zoom events so far
  lastEvent,     \* the wheel event or the deletion just dispatched
  probe          \* the function or handler taken on its own, and its result

vars == <<propMode, drawings, zoomT, seriesT, shown, env, drawEnv, preview, btn,
          ptr, pan, pendingClick, nZoom, lastEvent, probe>>

NoDrawEnv == [installed |-> FALSE, mode |-> "none", drawing |-> FALSE,
              currentDrawing |-> None, live |-> FALSE]
NoPan == [active |-> FALSE, ax |-> 0, ay |-> 0, moved |-> FALSE]

\* setupDrawingInteractions(svg, g, xScale, yScale, drawingMode, drawingsRef)
SetupEnv(mode) == [mode |-> mode, selectedDrawing |-> 0]

SetupDrawEnv(mode, old) ==
  IF mode = "none"
    THEN [old EXCEPT !.live = FALSE]   \* the .drawing listeners of an earlier call stay
    ELSE [installed |-> TRUE, mode |-> mode, drawing |-> FALSE,
          currentDrawing |-> None, live |-> TRUE]

\* mount: useState('none'), then the effect's first renderChart
Init ==
  /\ propMode = "none"
  /\ drawings = << >>
  /\ zoomT = ZoomIdentity
  /\ seriesT = ZoomIdentity
  /\ shown = [list |-> << >>, T |-> ZoomIdentity]
  /\ env = SetupEnv("none")
  /\ drawEnv = NoDrawEnv
  /\ preview = None
  /\ btn = None
  /\ ptr = PtZ
  /\ pan = NoPan
  /\ pendingClick = FALSE
  /\ nZoom = 0
  /\ lastEvent = None
  /\ probe = None

(***************************************************************************)
(* Handlers of the drawing closure                                         *)
(***************************************************************************)
\* d3.pointer(event, g.node()): relative to g while g is in the document; the g
\* of an earlier render is detached, its bounding rectangle is empty and the
\* position is the one in the viewport
pointer(de, p) ==
  IF de.live THEN p
  ELSE [x |-> p.x + MarginLeft + SvgLeft, y |-> p.y + MarginTop + SvgTop]

\* svg.on("mousedown.drawing")
MouseDownDrawing(de, p, zt) ==
  IF OutsidePlot(pointer(de, p)) THEN de
  ELSE [de EXCEPT !.drawing = TRUE,
                  !.currentDrawing = [type |-> de.mode,
                                      start |-> DomainOf(BoundsTransform(zt), pointer(de, p)),
                                      end |-> DomainOf(BoundsTransform(zt), pointer(de, p))]]

\* svg.on("mousemove.drawing"): whether it gets past its first line
MoveHandled(de) == de.installed /\ de.drawing /\ de.currentDrawing # None

MouseMoveDrawing(de, p, zt) ==
  [de EXCEPT !.currentDrawing.end =
               DomainOf(BoundsTransform(zt), Constrained(pointer(de, p)))]

\* variant: unshift in place of push
CommittedFirst(ds, de) ==
  IF Moved(de.currentDrawing) THEN <<de.currentDrawing>> \o ds ELSE ds

\* svg.on("mouseup.drawing"): the committed list it leaves
Committed(ds, de) == IF Moved(de.currentDrawing) THEN Append(ds, de.currentDrawing) ELSE ds

MouseUpDrawing(de) == [de EXCEPT !.drawing = FALSE, !.currentDrawing = None]

\* the zoom listener runs first, and stops the event, unless the .drawing
\* listeners are those of an earlier setup (re-registering moves a listener
\* behind the others)
DrawingListenerFirst == drawEnv.installed /\ ~drawEnv.live

(***************************************************************************)
(* Actions                                                                 *)
(***************************************************************************)
\* DrawingTools: onClick={() => setDrawingMode(tool.value)}
SetDrawingMode(m) ==
  /\ UNCHANGED probe
  /\ btn = None /\ ~pendingClick
  /\ m # propMode
  /\ propMode' = m
  /\ lastEvent' = None
  /\ UNCHANGED <<drawings, zoomT, seriesT, shown, env, drawEnv, preview, btn, ptr,
                 pan, pendingClick, nZoom>>

\* useEffect(..., [data, config]): renderChart on a data or configuration change
RenderChart ==
  /\ UNCHANGED probe
  /\ btn = None /\ ~pendingClick
  /\ seriesT' = ZoomIdentity
  /\ shown' = [list |-> drawings, T |-> ZoomIdentity]
  /\ env' = SetupEnv(propMode)
  /\ drawEnv' = SetupDrawEnv(propMode, drawEnv)
  /\ preview' = None
  /\ lastEvent' = None
  /\ UNCHANGED <<propMode, drawings, zoomT, btn, ptr, pan, pendingClick, nZoom>>

\* the zoom listener of combinedZoom: updateChart(newXScale, newYScale)
ZoomTo(T) ==
  /\ nZoom < MaxZoomEvents
  /\ nZoom' = nZoom + 1
  /\ zoomT' = T
  /\ seriesT' = T
  /\ shown' = [list |-> drawings, T |-> T]

MouseDown(mod) ==
  /\ UNCHANGED probe
  /\ btn = None /\ ~pendingClick
  /\ ZoomFilter(mod) => ptr \in DragStarts
  /\ btn' = ptr
  /\ pan' = IF ZoomFilter(mod)
              THEN [active |-> TRUE, ax |-> zoomT.x - SvgX(ptr), ay |-> zoomT.y - SvgY(ptr),
                    moved |-> FALSE]
              ELSE pan
  /\ drawEnv' = IF drawEnv.installed /\ (~ZoomFilter(mod) \/ DrawingListenerFirst)
                  THEN MouseDownDrawing(drawEnv, ptr, zoomT)
                  ELSE drawEnv
  /\ lastEvent' = None
  /\ UNCHANGED <<propMode, drawings, zoomT, seriesT, shown, env, preview, ptr,
                 pendingClick, nZoom>>

MouseMove(p) ==
  /\ UNCHANGED probe
  /\ ~pendingClick
  /\ p # ptr
  /\ btn # None => (btn \in DragStarts /\ p \in DragEnds)
  /\ ptr' = p
  /\ lastEvent' = None
  /\ IF pan.active
       THEN \* mousemove.zoom on the window, capturing: the event stops there
            /\ ZoomTo(Constrain([k |-> zoomT.k, x |-> pan.ax + SvgX(p), y |-> pan.ay + SvgY(p)]))
            /\ pan' = [pan EXCEPT !.moved = TRUE]
            /\ UNCHANGED <<drawEnv, preview>>
       ELSE /\ IF MoveHandled(drawEnv)
                 THEN /\ drawEnv' = MouseMoveDrawing(drawEnv, p, zoomT)
                      /\ preview' = IF drawEnv.live THEN drawEnv'.currentDrawing
                                     ELSE preview
                 ELSE UNCHANGED <<drawEnv, preview>>
            /\ UNCHANGED <<zoomT, seriesT, shown, pan, nZoom>>
  /\ UNCHANGED <<propMode, drawings, env, btn, pendingClick>>

MouseUp ==
  /\ UNCHANGED probe
  /\ btn # None
  /\ (MoveHandled(drawEnv) /\ ~pan.active)
       => Len(Committed(drawings, drawEnv)) <= MaxDrawings
  /\ btn' = None
  /\ lastEvent' = None
  /\ IF pan.active
       THEN \* mouseup.zoom on the window, capturing; a drag suppresses the click
            /\ pan' = NoPan
            /\ pendingClick' = (env.mode = "none" /\ ~pan.moved)
            /\ UNCHANGED <<drawings, shown, drawEnv, preview>>
       ELSE /\ pendingClick' = (env.mode = "none")
            /\ IF MoveHandled(drawEnv)
                 THEN /\ drawings' = Committed(drawings, drawEnv)
                      /\ drawEnv' = MouseUpDrawing(drawEnv)
                      /\ preview' = IF drawEnv.live THEN None ELSE preview
                      /\ shown' = IF drawEnv.live
                                    THEN [list |-> drawings', T |-> BoundsTransform(zoomT)]
                                    ELSE shown
                 ELSE UNCHANGED <<drawings, shown, drawEnv, preview>>
            /\ UNCHANGED pan
  /\ UNCHANGED <<propMode, zoomT, seriesT, env, ptr, nZoom>>

\* svg.on("click.drawing"), installed by a setup in select mode
Click ==
  /\ UNCHANGED probe
  /\ pendingClick
  /\ pendingClick' = FALSE
  /\ env' = IF OutsidePlot(ptr)
              THEN env
              ELSE [env EXCEPT !.selectedDrawing =
                      foundDrawing(ptr, drawings, BoundsTransform(zoomT))]
  /\ lastEvent' = None
  /\ UNCHANGED <<propMode, drawings, zoomT, seriesT, shown, drawEnv, preview, btn,
                 ptr, pan, nZoom>>

\* handleKeyDown
DeleteHandled(key) ==
  env.mode = "none" /\ env.selectedDrawing # 0 /\ key \in {"Delete", "Backspace"}

KeyDown(key) ==
  /\ UNCHANGED probe
  /\ ~pendingClick
  /\ IF DeleteHandled(key)
       THEN /\ lastEvent' = [type |-> "delete", key |-> key, index |-> env.selectedDrawing]
            /\ drawings' = Splice(drawings, env.selectedDrawing)
            /\ env' = [env EXCEPT !.selectedDrawing = 0]
            /\ shown' = [list |-> drawings', T |-> BoundsTransform(zoomT)]
       ELSE /\ lastEvent' = None
            /\ UNCHANGED <<drawings, env, shown>>
  /\ UNCHANGED <<propMode, zoomT, seriesT, drawEnv, preview, btn, ptr, pan,
                 pendingClick, nZoom>>

\* wheel.zoom: one notch in (dir = 1) or out (dir = -1)
Wheel(mod, dir) ==
  /\ UNCHANGED probe
  /\ ~pendingClick /\ ~pan.active
  /\ ptr \in WheelPoints
  /\ IF ZoomFilter(mod)
       THEN LET k2 == IF dir = 1 THEN zoomT.k * 2 ELSE zoomT.k \div 2
            IN  /\ k2 >= 1 /\ k2 <= 2 ^ MaxZoomLevel
                /\ WheelExact(zoomT, k2, ptr)
                /\ ZoomTo(WheelTransform(zoomT, k2, ptr))
       ELSE UNCHANGED <<zoomT, seriesT, shown, nZoom>>
  /\ lastEvent' = [type |-> "wheel", mod |-> mod, axes |-> AxesChanged(zoomT, zoomT')]
  /\ UNCHANGED <<propMode, drawings, env, drawEnv, preview, btn, ptr, pan, pendingClick>>

Next ==
  \/ \E m \in UsedTools : SetDrawingMode(m)
  \/ RenderChart
  \/ \E mod \in Mods : MouseDown(mod)
  \/ \E p \in Points : MouseMove(p)
  \/ MouseUp
  \/ Click
  \/ \E key \in Keys : KeyDown(key)
  \/ \E mod \in Mods, dir \in {1, -1} : Wheel(mod, dir)

Spec == Init /\ [][Next]_vars

(***************************************************************************)
(* ChartRenderer.tsx, the self-contained revision: one zoom behaviour and  *)
(* its own setupDrawingInteractions on the drawing-area rectangle          *)
(***************************************************************************)
\* bounds.drawingWidth = range()[1] * 0.75, the width of the drawing-area rect
monoDrawingWidth == (width * 3) \div 4

InDrawingArea(p) ==
  ~(p.x < 0 \/ p.x > monoDrawingWidth \/ p.y < 0 \/ p.y > PlotBottom)

MonoConstrained(p) ==
  [x |-> Max(0, Min(p.x, monoDrawingWidth)), y |-> Max(0, Min(p.y, PlotBottom))]

\* translateExtent([[-width * 2, -height * 2], [width * 3, height * 3]])
MonoConstrain(T) ==
  [k |-> T.k,
   x |-> ConstrainAxis(T.x, T.k, ClientWidth, 0 - width * 2, width * 3),
   y |-> ConstrainAxis(T.y, T.k, ClientHeight, 0 - height * 2, height * 3)]

MonoSetup(mode) ==
  [installed |-> TRUE, mode |-> mode, drawing |-> FALSE, currentDrawing |-> None,
   live |-> TRUE]

MonoInit ==
  /\ propMode = "none"
  /\ drawings = << >>
  /\ zoomT = ZoomIdentity
  /\ seriesT = ZoomIdentity
  /\ shown = [list |-> << >>, T |-> ZoomIdentity]
  /\ env = SetupEnv("none")
  /\ drawEnv = MonoSetup("none")
  /\ preview = None
  /\ btn = None
  /\ ptr = PtZ
  /\ pan = NoPan
  /\ pendingClick = FALSE
  /\ nZoom = 0
  /\ lastEvent = None
  /\ probe = None

MonoRenderChart ==
  /\ UNCHANGED probe
  /\ btn = None
  /\ seriesT' = ZoomIdentity
  /\ shown' = [list |-> drawings, T |-> ZoomIdentity]
  /\ env' = SetupEnv(propMode)
  /\ drawEnv' = MonoSetup(propMode)
  /\ preview' = None
  /\ UNCHANGED <<propMode, drawings, zoomT, btn, ptr, pan, pendingClick, nZoom, lastEvent>>

\* drawingArea.on("mousedown"); an event it lets through starts a pan
MonoMouseDown ==
  /\ UNCHANGED probe
  /\ btn = None
  /\ btn' = ptr
  /\ IF InDrawingArea(ptr) /\ drawEnv.mode # "none"
       THEN /\ drawEnv' = [drawEnv EXCEPT !.drawing = TRUE,
                             !.currentDrawing = [type |-> drawEnv.mode,
                                                 start |-> DomainOf(zoomT, ptr),
                                                 end |-> DomainOf(zoomT, ptr)]]
            /\ UNCHANGED pan
       ELSE /\ ptr \in DragStarts
            /\ pan' = [active |-> TRUE, ax |-> zoomT.x - SvgX(ptr),
                       ay |-> zoomT.y - SvgY(ptr), moved |-> FALSE]
            /\ UNCHANGED drawEnv
  /\ UNCHANGED <<propMode, drawings, zoomT, seriesT, shown, env, preview, ptr,
                 pendingClick, nZoom, lastEvent>>

\* drawingArea.on("mousemove")
MonoMouseMove(p) ==
  /\ UNCHANGED probe
  /\ p # ptr
  /\ btn # None => (btn \in DragStarts /\ p \in DragEnds)
  /\ ptr' = p
  /\ IF pan.active
       THEN /\ ZoomTo(MonoConstrain([k |-> zoomT.k, x |-> pan.ax + SvgX(p),
                                     y |-> pan.ay + SvgY(p)]))
            /\ pan' = [pan EXCEPT !.moved = TRUE]
            /\ UNCHANGED <<drawEnv, preview>>
       ELSE /\ IF MoveHandled(drawEnv) /\ InDrawingArea(p)
                 THEN /\ drawEnv' = [drawEnv EXCEPT !.currentDrawing.end =
                                       DomainOf(zoomT, MonoConstrained(p))]
                      /\ preview' = drawEnv'.currentDrawing
                 ELSE UNCHANGED <<drawEnv, preview>>
            /\ UNCHANGED <<zoomT, seriesT, shown, pan, nZoom>>
  /\ UNCHANGED <<propMode, drawings, env, btn, pendingClick, lastEvent>>

\* drawingArea.on("mouseup")
MonoMouseUp ==
  /\ UNCHANGED probe
  /\ btn # None
  /\ btn' = None
  /\ IF pan.active
       THEN /\ pan' = NoPan
            /\ UNCHANGED <<drawings, shown, drawEnv, preview>>
       ELSE /\ IF MoveHandled(drawEnv) /\ InDrawingArea(ptr)
                 THEN /\ Len(drawings) < MaxDrawings
                      /\ drawings' = Append(drawings, drawEnv.currentDrawing)
                      /\ drawEnv' = MouseUpDrawing(drawEnv)
                      /\ preview' = None
                      /\ shown' = [list |-> drawings', T |-> zoomT]
                 ELSE UNCHANGED <<drawings, shown, drawEnv, preview>>
            /\ UNCHANGED pan
  /\ UNCHANGED <<propMode, zoomT, seriesT, env, ptr, pendingClick, nZoom, lastEvent>>

\* wheel.zoom of the single zoom behaviour (default filter)
MonoWheel(dir) ==
  /\ UNCHANGED probe
  /\ ~pan.active
  /\ ptr \in WheelPoints
  /\ LET k2 == IF dir = 1 THEN zoomT.k * 2 ELSE zoomT.k \div 2
     IN  /\ k2 >= 1 /\ k2 <= 2 ^ MaxZoomLevel
         /\ WheelExact(zoomT, k2, ptr)
         /\ ZoomTo(MonoConstrain(WheelPoint(zoomT, k2, ptr)))
  /\ UNCHANGED <<propMode, drawings, env, drawEnv, preview, btn, ptr, pan,
                 pendingClick, lastEvent>>

MonoNext ==
  \/ \E m \in UsedTools : SetDrawingMode(m)
  \/ MonoRenderChart
  \/ MonoMouseDown
  \/ \E p \in Points : MonoMouseMove(p)
  \/ MonoMouseUp
  \/ \E dir \in {1, -1} : MonoWheel(dir)

SpecMono == MonoInit /\ [][MonoNext]_vars

(***************************************************************************)
(* isPointOnLine on its own: a horizontal segment from (0, 0) and a point  *)
(* above it, in half pixels                                                *)
(***************************************************************************)
MaxProbeLength == 20

ProbeTolerance == 2 * tolerance   \* 5 px
ProbeNear == tolerance            \* 2.5 px, half the tolerance
ProbeFar == 4 * tolerance         \* 10 px, twice the tolerance
\* segment lengths: 10 px, 20 px, ...
ProbeLengths == {20 * n : n \in 1..MaxProbeLength}

HitProbe(len, q, off) ==
  /\ probe' = [len |-> len, along |-> (len * q) \div 4, off |-> off,
               hit |-> isPointOnLine((len * q) \div 4, off, 0, 0, len, 0, ProbeTolerance)]
  /\ UNCHANGED <<propMode, drawings, zoomT, seriesT, shown, env, drawEnv, preview, btn,
                 ptr, pan, pendingClick, nZoom, lastEvent>>

HitNext == \E len \in ProbeLengths, q \in 0..4, off \in {ProbeNear, ProbeFar} : HitProbe(len, q, off)

SpecHit == Init /\ [][HitNext]_vars

(***************************************************************************)
(* xZoom and yZoom on their own: the zoom listeners of the two one-axis    *)
(* behaviours, each given the wheel events its filter accepts.  Both keep  *)
(* their transform in svg.__zoom.  probe.zoom is that transform,           *)
(* probe.time and probe.price are the transforms behind the x and y scales *)
(* of the last updateChart.                                                *)
(***************************************************************************)
\* xZoom: translateExtent([[-width * 5, -height], [width * 6, height]])
XZoomConstrain(T) ==
  [k |-> T.k,
   x |-> ConstrainAxis(T.x, T.k, ClientWidth, 0 - width * 5, width * 6),
   y |-> ConstrainAxis(T.y, T.k, ClientHeight, 0 - height, height)]

\* yZoom: translateExtent([[-width, -height * 5], [width, height * 6]])
YZoomConstrain(T) ==
  [k |-> T.k,
   x |-> ConstrainAxis(T.x, T.k, ClientWidth, 0 - width, width),
   y |-> ConstrainAxis(T.y, T.k, ClientHeight, 0 - height * 5, height * 6)]

AxesStart == [zoom |-> ZoomIdentity, time |-> ZoomIdentity, price |-> ZoomIdentity]
AxesNow == IF probe = None THEN AxesStart ELSE probe

WheelStep(T, dir) == IF dir = 1 THEN T.k * 2 ELSE T.k \div 2

WheelAllowed(T, dir, p) ==
  /\ WheelStep(T, dir) >= 1
  /\ WheelStep(T, dir) <= 2 ^ MaxZoomLevel
  /\ WheelExact(T, WheelStep(T, dir), p)

\* xZoom.on("zoom"): updateChart(transform.rescaleX(xScale), yScale)
XZoomWheel(dir, p) ==
  /\ WheelAllowed(AxesNow.zoom, dir, p)
  /\ LET T == XZoomConstrain(WheelPoint(AxesNow.zoom, WheelStep(AxesNow.zoom, dir), p))
     IN  probe' = [zoom |-> T, time |-> T, price |-> ZoomIdentity]
  /\ UNCHANGED <<propMode, drawings, zoomT, seriesT, shown, env, drawEnv, preview, btn,
                 ptr, pan, pendingClick, nZoom, lastEvent>>

\* yZoom.on("zoom"): updateChart(xScale, transform.rescaleY(yScale))
YZoomWheel(dir, p) ==
  /\ WheelAllowed(AxesNow.zoom, dir, p)
  /\ LET T == YZoomConstrain(WheelPoint(AxesNow.zoom, WheelStep(AxesNow.zoom, dir), p))
     IN  probe' = [zoom |-> T, time |-> ZoomIdentity, price |-> T]
  /\ UNCHANGED <<propMode, drawings, zoomT, seriesT, shown, env, drawEnv, preview, btn,
                 ptr, pan, pendingClick, nZoom, lastEvent>>

AxesNext ==
  \/ \E dir \in {1, -1}, p \in Points : XZoomWheel(dir, p)
  \/ \E dir \in {1, -1}, p \in Points : YZoomWheel(dir, p)

SpecAxes == Init /\ [][AxesNext]_vars

(***************************************************************************)
(* scaleExtent on its own: the scale factor of a zoom behaviour under a    *)
(* sequence of wheel requests.  Scale factors are in units of 1/KRes, so   *)
(* that 0.1, 50 and the quarters and halves of 50 are integers.            *)
(***************************************************************************)
KRes == 10 * (4 ^ 6)

\* scaleExtent([0.1, 50]) of part_001, scaleExtent([0.1, 10]) of ChartRenderer.tsx
MinScale == KRes \div 10
MaxScale == 50 * KRes
MonoMaxScale == 10 * KRes

Revisions == {"part_001", "ChartRenderer.tsx"}
MaxScaleOf(rev) == IF rev = "part_001" THEN MaxScale ELSE MonoMaxScale

\* wheel steps: a factor 2^n, for n in WheelPowers
WheelPowers == {-2, -1, 1, 2}
Requested(k, n) == IF n > 0 THEN k * (2 ^ n) ELSE k \div (2 ^ (0 - n))

\* variant: the request is applied as it is
ScaleUnclamped(kr, lo, hi) == kr

\* Math.max(scaleExtent[0], Math.min(scaleExtent[1], k))
ScaleClamp(kr, lo, hi) == Max(lo, Min(hi, kr))

ScaleNow(rev) == IF probe = None \/ probe.rev # rev THEN KRes ELSE probe.k

ScaleWheel(rev, n) ==
  /\ probe' = [rev |-> rev, from |-> ScaleNow(rev), request |-> Requested(ScaleNow(rev), n),
               k |-> ScaleClamp(Requested(ScaleNow(rev), n), MinScale, MaxScaleOf(rev))]
  /\ UNCHANGED <<propMode, drawings, zoomT, seriesT, shown, env, drawEnv, preview, btn,
                 ptr, pan, pendingClick, nZoom, lastEvent>>

ScaleNext == \E rev \in Revisions, n \in WheelPowers : ScaleWheel(rev, n)

SpecScale == Init /\ [][ScaleNext]_vars

(***************************************************************************)
(* translateExtent on its own: the transform of the live zoom behaviour    *)
(* under a sequence of pan gestures at scale 1, in either revision.        *)
(***************************************************************************)
PanStepsX == {0 - 150, 0, 150}
PanStepsY == {0 - 120, 0, 120}

ConstrainOf(rev, T) == IF rev = "part_001" THEN Constrain(T) ELSE MonoConstrain(T)

PanNow(rev) == IF probe = None \/ probe.rev # rev THEN ZoomIdentity ELSE probe.T

\* mousemoved: constrain(translate(that.__zoom, pointer, mouse[1]), extent, translateExtent)
PanBy(rev, dx, dy) ==
  /\ probe' = [rev |-> rev,
               T |-> ConstrainOf(rev, [k |-> PanNow(rev).k, x |-> PanNow(rev).x + dx,
                                       y |-> PanNow(rev).y + dy])]
  /\ UNCHANGED <<propMode, drawings, zoomT, seriesT, shown, env, drawEnv, preview, btn,
                 ptr, pan, pendingClick, nZoom, lastEvent>>

PanNext == \E rev \in Revisions, dx \in PanStepsX, dy \in PanStepsY : PanBy(rev, dx, dy)

SpecPan == Init /\ [][PanNext]_vars

(***************************************************************************)
(* updateChart on its own: the elements of the plot group, counted by      *)
(* class, and the calls of TI.SMA.calculate, over renderChart and the      *)
(* zoom handlers' redraws.                                                 *)
(***************************************************************************)
DataLen == 3
MaxPasses == 2
MaxIndicators == 2

ChartTypes == {"candlestick", "line", "area", "bar", "heikinashi"}
Periods == {2, 4}

Classes ==
  {"candles-group", "candle", "line", "area", "bar", "ha-candle", "volume-group",
   "volume-bar", "axis", "indicator", "indicator-label", "current-price-line",
   "current-price-label", "oi-overlay", "drawings-layer", "drawing"}

NoElements == [c \in Classes |-> 0]

\* config and drawingsRef.current as they matter to updateChart
Configs ==
  [chartType : ChartTypes,
   appliedIndicators : UNION {[1..n -> Periods] : n \in 0..MaxIndicators},
   showOI : BOOLEAN,
   drawings : {0, 1}]

\* selection.data(data).enter(): one new element for each datum without one
EnterCount(existing) == Max(0, DataLen - existing)

\* indicators whose smaData is not empty: renderIndicatorLabel appends a group
Labelled(cfg) ==
  Cardinality({i \in 1..Len(cfg.appliedIndicators) : cfg.appliedIndicators[i] <= DataLen})

renderSeries(els, cfg) ==
  CASE cfg.chartType = "candlestick" ->
         [els EXCEPT !["candles-group"] = @ + 1, !["candle"] = @ + DataLen]
    [] cfg.chartType = "line" -> [els EXCEPT !["line"] = @ + 1]
    [] cfg.chartType = "area" -> [els EXCEPT !["area"] = @ + 1]
    [] cfg.chartType = "bar" -> [els EXCEPT !["bar"] = @ + EnterCount(@)]
    [] OTHER -> [els EXCEPT !["ha-candle"] = @ + EnterCount(@)]

updateChart(els, cfg) ==
  LET cleared == [els EXCEPT !["candle"] = 0, !["volume-bar"] = 0, !["axis"] = 0,
                             !["oi-overlay"] = 0]
      series == renderSeries(cleared, cfg)
  IN  [series EXCEPT
         !["volume-group"] = @ + 1,
         !["volume-bar"] = @ + DataLen,
         !["indicator"] = Len(cfg.appliedIndicators),
         !["indicator-label"] = @ + Labelled(cfg),
         !["axis"] = @ + 3,
         !["current-price-line"] = 1,
         !["current-price-label"] = 1,
         !["oi-overlay"] = IF cfg.showOI THEN @ + 1 ELSE @,
         !["drawings-layer"] = IF cfg.drawings = 0 THEN 0 ELSE 1,
         !["drawing"] = cfg.drawings]

\* the effect on [data, config]: everything removed, one updateChart
RenderWith(cfg) ==
  /\ probe' = [config |-> cfg, passes |-> 0, calcs |-> Len(cfg.appliedIndicators),
               els |-> updateChart(NoElements, cfg)]
  /\ UNCHANGED <<propMode, drawings, zoomT, seriesT, shown, env, drawEnv, preview, btn,
                 ptr, pan, pendingClick, nZoom, lastEvent>>

\* a zoom event with the transform of the previous pass
ViewportChanged ==
  /\ probe # None
  /\ probe.passes < MaxPasses
  /\ probe' = [probe EXCEPT !.passes = @ + 1,
                            !.calcs = @ + Len(probe.config.appliedIndicators),
                            !.els = updateChart(@, probe.config)]
  /\ UNCHANGED <<propMode, drawings, zoomT, seriesT, shown, env, drawEnv, preview, btn,
                 ptr, pan, pendingClick, nZoom, lastEvent>>

RenderNext ==
  \/ \E cfg \in Configs : RenderWith(cfg)
  \/ ViewportChanged

SpecRender == Init /\ [][RenderNext]_vars

(***************************************************************************)
(* The vertical bands of the panels: price and volume from the scales of   *)
(* renderChart, one band for each applied oscillator from its renderer.    *)
(***************************************************************************)
MaxPanels == 3

\* plot heights: the model's plot, the 750px container of TradingChart, a tall one
PlotHeights == {height, 750 - MarginTop - MarginBottom, 1200}

PanelTypes == {"MACD", "RSI", "STOCH"}

\* yScale.range()[0]
PriceBottom(h) == (h * 7) \div 10

\* macdY / rsiY / stochY and macdHeight / rsiHeight / stochHeight
PanelBand(h, type) ==
  CASE type = "MACD" -> [top |-> PriceBottom(h) + 50, bottom |-> PriceBottom(h) + 50 + 100]
    [] type = "RSI" -> [top |-> PriceBottom(h) + 200, bottom |-> PriceBottom(h) + 200 + 80]
    [] OTHER -> [top |-> PriceBottom(h) + 300, bottom |-> PriceBottom(h) + 300 + 80]

\* the price band, the volume band, then the applied oscillators in order
Bands(h, inds) ==
  <<[top |-> 0, bottom |-> PriceBottom(h)],
    [top |-> PriceBottom(h), bottom |-> (h * 3) \div 4]>>
  \o [i \in 1..Len(inds) |-> PanelBand(h, inds[i])]

Layout(h, inds) ==
  /\ probe' = [height |-> h, inds |-> inds, bands |-> Bands(h, inds)]
  /\ UNCHANGED <<propMode, drawings, zoomT, seriesT, shown, env, drawEnv, preview, btn,
                 ptr, pan, pendingClick, nZoom, lastEvent>>

PanelsNext ==
  \E h \in PlotHeights, inds \in UNION {[1..n -> PanelTypes] : n \in 0..MaxPanels} :
    Layout(h, inds)

SpecPanels == Init /\ [][PanelsNext]_vars

(***************************************************************************)
(* The toolbar's applied indicators: config.appliedIndicators under        *)
(* addIndicator and removeIndicator.  An id `${type}_${n}` is the record   *)
(* [type, n].                                                              *)
(***************************************************************************)
MaxApplied == 3

IndicatorTypes == {"SMA", "RSI", "MACD"}

AppliedNow == IF probe = None THEN <<>> ELSE probe.appliedIndicators

\* appliedIndicators.filter(ind => ind.type === type).length
ExistingCount(applied, type) == Cardinality({i \in 1..Len(applied) : applied[i].type = type})

generateIndicatorId(applied, type) == [type |-> type, n |-> ExistingCount(applied, type) + 1]

\* appliedIndicators.filter(ind => ind.id !== indicatorId)
FilterOut(applied, id) ==
  LET F[i \in 0..Len(applied)] ==
        IF i = 0 THEN <<>>
        ELSE IF applied[i].id # id THEN Append(F[i - 1], applied[i]) ELSE F[i - 1]
  IN  F[Len(applied)]

addIndicator(type) ==
  /\ Len(AppliedNow) < MaxApplied
  /\ probe' = [appliedIndicators |->
                 Append(AppliedNow, [id |-> generateIndicatorId(AppliedNow, type),
                                     type |-> type])]
  /\ UNCHANGED <<propMode, drawings, zoomT, seriesT, shown, env, drawEnv, preview, btn,
                 ptr, pan, pendingClick, nZoom, lastEvent>>

\* the remove button of an applied indicator's row
removeIndicator(i) ==
  /\ i \in 1..Len(AppliedNow)
  /\ probe' = [appliedIndicators |-> FilterOut(AppliedNow, AppliedNow[i].id)]
  /\ UNCHANGED <<propMode, drawings, zoomT, seriesT, shown, env, drawEnv, preview, btn,
                 ptr, pan, pendingClick, nZoom, lastEvent>>

IndicatorsNext ==
  \/ \E type \in IndicatorTypes : addIndicator(type)
  \/ \E i \in 1..MaxApplied : removeIndicator(i)

SpecIndicators == Init /\ [][IndicatorsNext]_vars

(***************************************************************************)
(* The drawing handlers with every tool of the toolbar: the chart rendered *)
(* with a tool chosen, then drags over the plot with no modifier key.      *)
(***************************************************************************)
\* the cases of renderDrawings and of isPointOnDrawing
RenderedKinds == {"line", "rectangle", "circle", "horizontal", "vertical", "fibonacci"}

KindsNow == IF probe = None THEN [de |-> NoDrawEnv, ds |-> << >>, layers |-> << >>] ELSE probe

\* variant: the new preview layer is appended to the layers there are
PreviewAppended(layers, d) == Append(layers, d)

\* mousemove.drawing: the .drawing-preview-layer elements of g after
\* selectAll(".drawing-preview-layer").remove() and renderDrawingPreview
PreviewAfterMove(layers, d) == <<d>>

\* setDrawingMode(tool.value), then renderChart: setupDrawingInteractions
ChooseTool(m) ==
  /\ ~KindsNow.de.drawing
  /\ probe' = [de |-> SetupDrawEnv(m, KindsNow.de), ds |-> KindsNow.ds, layers |-> << >>]
  /\ UNCHANGED <<propMode, drawings, zoomT, seriesT, shown, env, drawEnv, preview, btn,
                 ptr, pan, pendingClick, nZoom, lastEvent>>

DragStart(p) ==
  /\ KindsNow.de.installed /\ KindsNow.de.live /\ ~KindsNow.de.drawing
  /\ probe' = [de |-> MouseDownDrawing(KindsNow.de, p, ZoomIdentity), ds |-> KindsNow.ds,
               layers |-> KindsNow.layers]
  /\ UNCHANGED <<propMode, drawings, zoomT, seriesT, shown, env, drawEnv, preview, btn,
                 ptr, pan, pendingClick, nZoom, lastEvent>>

DragTo(p) ==
  /\ MoveHandled(KindsNow.de)
  /\ probe' = [de |-> MouseMoveDrawing(KindsNow.de, p, ZoomIdentity), ds |-> KindsNow.ds,
               layers |-> PreviewAfterMove(KindsNow.layers,
                            MouseMoveDrawing(KindsNow.de, p, ZoomIdentity).currentDrawing)]
  /\ UNCHANGED <<propMode, drawings, zoomT, seriesT, shown, env, drawEnv, preview, btn,
                 ptr, pan, pendingClick, nZoom, lastEvent>>

DragEnd ==
  /\ MoveHandled(KindsNow.de)
  /\ Len(Committed(KindsNow.ds, KindsNow.de)) <= MaxDrawings
  /\ probe' = [de |-> MouseUpDrawing(KindsNow.de), ds |-> Committed(KindsNow.ds, KindsNow.de),
               layers |-> << >>]
  /\ UNCHANGED <<propMode, drawings, zoomT, seriesT, shown, env, drawEnv, preview, btn,
                 ptr, pan, pendingClick, nZoom, lastEvent>>

KindsNext ==
  \/ \E m \in Tools : ChooseTool(m)
  \/ \E p \in DragStarts : DragStart(p)
  \/ \E p \in DragEnds : DragTo(p)
  \/ DragEnd

SpecKinds == Init /\ [][KindsNext]_vars

(***************************************************************************)
(* Two-finger touch: the touch listeners of the zoom behaviour in force    *)
(* (touchstart.zoom, touchmove.zoom, touchend.zoom), in either revision.   *)
(* Positions are relative to the svg.  A gesture starts with finger 0 at   *)
(* TouchOrigin and finger 1 displaced from it.                             *)
(***************************************************************************)
MaxGestures == 2

TouchOrigin == [x |-> 100, y |-> 100]

\* displacement of finger 1 from finger 0 at touch-start
TouchSpans == {[x |-> 40, y |-> 0], [x |-> 0, y |-> 40], [x |-> 40, y |-> 40],
               [x |-> 40, y |-> 20]}

TouchPans == {[x |-> 20, y |-> 0], [x |-> 0, y |-> 20]}

TouchMods == {"none", "ctrl"}

\* the filter in force: combinedZoom's, or d3's default
\* (!event.ctrlKey || event.type === 'wheel') && !event.button
TouchFilter(rev, mod) == IF rev = "part_001" THEN ZoomFilter(mod) ELSE mod # "ctrl"

Plus(p, d) == [x |-> p.x + d.x, y |-> p.y + d.y]

\* transform.invert(p)
Invert(T, p) == [x |-> (p.x - T.x) \div T.k, y |-> (p.y - T.y) \div T.k]

InvertExact(T, p) == (p.x - T.x) % T.k = 0 /\ (p.y - T.y) % T.k = 0

\* [p, this.__zoom.invert(p)]
Touch(T, p) == [p |-> p, l |-> Invert(T, p)]

Dist2(a, b) == (a.x - b.x) * (a.x - b.x) + (a.y - b.y) * (a.y - b.y)

Mid(a, b) == [x |-> (a.x + b.x) \div 2, y |-> (a.y + b.y) \div 2]

\* translate(scale(t, k), p, l)
TouchTransform(k, p, l) == [k |-> k, x |-> p.x - l.x * k, y |-> p.y - l.y * k]

\* touchmoved with two touches: scale by sqrt(dp / dl) about the midpoints
Pinched(rev, t0, t1) ==
  ConstrainOf(rev, TouchTransform(Isqrt(Dist2(t1.p, t0.p) \div Dist2(t1.l, t0.l)),
                                  Mid(t0.p, t1.p), Mid(t0.l, t1.l)))

\* touchmoved with one touch
Dragged(rev, T, t0) == ConstrainOf(rev, TouchTransform(T.k, t0.p, t0.l))

TouchT(rev) == IF probe = None \/ probe.rev # rev THEN ZoomIdentity ELSE probe.T

GesturesNow == IF probe = None THEN 0 ELSE probe.gestures

\* touchstart with two fingers
TouchStart(rev, mod, span) ==
  /\ IF probe = None THEN TRUE ELSE probe.fingers = 0
  /\ GesturesNow < MaxGestures
  /\ InvertExact(TouchT(rev), TouchOrigin)
  /\ InvertExact(TouchT(rev), Plus(TouchOrigin, span))
  /\ probe' = [rev |-> rev, T |-> TouchT(rev), gestures |-> GesturesNow + 1,
               fingers |-> 2, span |-> span,
               spread |-> FALSE, axes |-> {},
               touch0 |-> IF TouchFilter(rev, mod) THEN Touch(TouchT(rev), TouchOrigin)
                          ELSE None,
               touch1 |-> IF TouchFilter(rev, mod)
                            THEN Touch(TouchT(rev), Plus(TouchOrigin, span)) ELSE None]
  /\ UNCHANGED <<propMode, drawings, zoomT, seriesT, shown, env, drawEnv, preview, btn,
                 ptr, pan, pendingClick, nZoom, lastEvent>>

\* touchmove: finger 1 moves away to twice its distance from finger 0
TouchSpread ==
  /\ probe # None /\ probe.fingers = 2 /\ ~probe.spread
  /\ IF probe.touch1 = None
       THEN probe' = [probe EXCEPT !.spread = TRUE]
       ELSE LET t1 == [probe.touch1 EXCEPT !.p = Plus(probe.touch0.p, Plus(probe.span, probe.span))]
                T == Pinched(probe.rev, probe.touch0, t1)
            IN  /\ T.k <= 2 ^ MaxZoomLevel
                /\ probe' = [probe EXCEPT !.spread = TRUE, !.touch1 = t1, !.T = T,
                                          !.axes = @ \cup AxesChanged(probe.T, T)]
  /\ UNCHANGED <<propMode, drawings, zoomT, seriesT, shown, env, drawEnv, preview, btn,
                 ptr, pan, pendingClick, nZoom, lastEvent>>

\* touchend of finger 1: delete g.touch1; g.touch0[1] = this.__zoom.invert(g.touch0[0])
TouchDrop ==
  /\ probe # None /\ probe.fingers = 2
  /\ probe.touch0 # None => InvertExact(probe.T, probe.touch0.p)
  /\ probe' = [probe EXCEPT !.fingers = 1, !.touch1 = None,
                            !.touch0 = IF @ = None THEN None ELSE Touch(probe.T, @.p)]
  /\ UNCHANGED <<propMode, drawings, zoomT, seriesT, shown, env, drawEnv, preview, btn,
                 ptr, pan, pendingClick, nZoom, lastEvent>>

\* touchmove of the finger that is left
TouchPan(d) ==
  /\ probe # None /\ probe.fingers = 1
  /\ probe.touch0 # None
  /\ Plus(probe.touch0.p, d).x <= TouchOrigin.x + 40
  /\ Plus(probe.touch0.p, d).y <= TouchOrigin.y + 40
  /\ LET t0 == [probe.touch0 EXCEPT !.p = Plus(@, d)]
     IN  probe' = [probe EXCEPT !.touch0 = t0, !.T = Dragged(probe.rev, probe.T, t0)]
  /\ UNCHANGED <<propMode, drawings, zoomT, seriesT, shown, env, drawEnv, preview, btn,
                 ptr, pan, pendingClick, nZoom, lastEvent>>

\* touchend of the last finger: delete g.touch0
TouchEnd ==
  /\ probe # None /\ probe.fingers = 1
  /\ probe' = [probe EXCEPT !.fingers = 0, !.touch0 = None]
  /\ UNCHANGED <<propMode, drawings, zoomT, seriesT, shown, env, drawEnv, preview, btn,
                 ptr, pan, pendingClick, nZoom, lastEvent>>

TouchNext ==
  \/ \E rev \in Revisions, mod \in TouchMods, span \in TouchSpans : TouchStart(rev, mod, span)
  \/ TouchSpread
  \/ TouchDrop
  \/ \E d \in TouchPans : TouchPan(d)
  \/ TouchEnd

SpecTouch == Init /\ [][TouchNext]_vars

(***************************************************************************)
(* isPointOnDrawing on a fibonacci drawing, as a function of the click.    *)
(***************************************************************************)
FibXs == {0, 10, 40, 70, 76, 120, 200}
FibYs == 10..90

\* a fibonacci drawing dragged from PtA to PtB, and one dragged from PtB to PtA
FibDrawings ==
  {[type |-> "fibonacci", start |-> DomainOf(ZoomIdentity, PtA), end |-> DomainOf(ZoomIdentity, PtB)],
   [type |-> "fibonacci", start |-> DomainOf(ZoomIdentity, PtB), end |-> DomainOf(ZoomIdentity, PtA)]}

\* click.drawing on (x, y) with the drawing d committed
FibProbe(d, x, y) ==
  /\ probe' = [d |-> d, x |-> x, y |-> y, hit |-> isPointOnDrawing(x, y, d, ZoomIdentity)]
  /\ UNCHANGED <<propMode, drawings, zoomT, seriesT, shown, env, drawEnv, preview, btn,
                 ptr, pan, pendingClick, nZoom, lastEvent>>

FibNext == \E d \in FibDrawings, x \in FibXs, y \in FibYs : FibProbe(d, x, y)

SpecFib == Init /\ [][FibNext]_vars

(***************************************************************************)
(* The bands under zoom and pan: updateChart draws the volume bars and the *)
(* oscillators with the scales the zoom handler rescaled.                  *)
(***************************************************************************)
ViewIndicators == {<< >>, <<"MACD">>, <<"RSI">>, <<"RSI", "MACD">>}

\* variant: the transform applied to the range as well
RangeBottomMoved(h, T) == PriceBottom(h) * T.k + T.y

\* transform.rescaleY(yScale).range()[0]: rescaleY copies the scale and sets
\* its domain, the range stays
RangeBottom(h, T) == PriceBottom(h)

\* the band of an oscillator drawn with a scale whose range()[0] is r0
PanelBandAt(r0, type) ==
  CASE type = "MACD" -> [top |-> r0 + 50, bottom |-> r0 + 50 + 100]
    [] type = "RSI" -> [top |-> r0 + 200, bottom |-> r0 + 200 + 80]
    [] OTHER -> [top |-> r0 + 300, bottom |-> r0 + 300 + 80]

\* rsiScale(level) for the reference lines at 30, 50 and 70
RsiReferences(r0) == [level \in {30, 50, 70} |-> r0 + 200 + 80 - (level * 80) \div 100]

\* volume band (activeVolumeScale.range()), oscillator bands, reference lines
ViewBands(h, inds, T) ==
  [volume |-> [top |-> PriceBottom(h), bottom |-> (h * 3) \div 4],
   panels |-> [i \in 1..Len(inds) |-> PanelBandAt(RangeBottom(h, T), inds[i])],
   references |-> RsiReferences(RangeBottom(h, T))]

\* renderChart: updateChart(xScale, yScale)
ViewRender(inds) ==
  /\ probe' = [inds |-> inds, T |-> ZoomIdentity,
               first |-> ViewBands(height, inds, ZoomIdentity),
               bands |-> ViewBands(height, inds, ZoomIdentity)]
  /\ UNCHANGED <<propMode, drawings, zoomT, seriesT, shown, env, drawEnv, preview, btn,
                 ptr, pan, pendingClick, nZoom, lastEvent>>

\* a pan: updateChart(newXScale, newYScale)
ViewPan(dx, dy) ==
  /\ probe # None
  /\ LET T == Constrain([k |-> probe.T.k, x |-> probe.T.x + dx, y |-> probe.T.y + dy])
     IN  probe' = [probe EXCEPT !.T = T, !.bands = ViewBands(height, probe.inds, T)]
  /\ UNCHANGED <<propMode, drawings, zoomT, seriesT, shown, env, drawEnv, preview, btn,
                 ptr, pan, pendingClick, nZoom, lastEvent>>

\* a wheel step about PtA: updateChart(newXScale, newYScale)
ViewWheel(dir) ==
  /\ probe # None
  /\ WheelAllowed(probe.T, dir, PtA)
  /\ LET T == WheelTransform(probe.T, WheelStep(probe.T, dir), PtA)
     IN  probe' = [probe EXCEPT !.T = T, !.bands = ViewBands(height, probe.inds, T)]
  /\ UNCHANGED <<propMode, drawings, zoomT, seriesT, shown, env, drawEnv, preview, btn,
                 ptr, pan, pendingClick, nZoom, lastEvent>>

ViewNext ==
  \/ \E inds \in ViewIndicators : ViewRender(inds)
  \/ \E dx \in PanStepsX, dy \in PanStepsY : ViewPan(dx, dy)
  \/ \E dir \in {1, -1} : ViewWheel(dir)

SpecView == Init /\ [][ViewNext]_vars

(***************************************************************************)
(* renderRSI's series: the values of TI.RSI.calculate paired with dates.   *)
(* An RSI value is a record: the index of the last close it was computed   *)
(* from, and the number itself (0 when every change in its window was a    *)
(* loss).                                                                  *)
(***************************************************************************)
MaxPoints == 6
Day == 24 * 60 * 60 * 1000

\* data: point j has date j * Day
SeriesOf(n) == [j \in 1..n |-> [date |-> j * Day]]

\* TI.RSI.calculate({ period, values: closes }): one value for each close after
\* the first `period` closes; zeros are the positions whose RSI is 0
RsiCalculate(n, period, zeros) ==
  [i \in 1..Max(0, n - period) |->
     [upto |-> period + i, value |-> IF i \in zeros THEN 0 ELSE 40]]

\* variant: data.slice(period - 1), as the moving averages do
RsiDataEarly(data, period, rsiValues) ==
  [i \in 1..(Len(data) - period + 1) |->
     [date |-> data[period - 1 + i].date,
      upto |-> IF i <= Len(rsiValues) THEN rsiValues[i].upto ELSE 0,
      value |-> IF i > Len(rsiValues) \/ rsiValues[i].value = 0 THEN 50
                ELSE rsiValues[i].value]]

\* data.slice(period).map((d, i) => ({ date: d.date, value: rsiValues[i] || 50 }))
RsiData(data, period, rsiValues) ==
  [i \in 1..(Len(data) - period) |->
     [date |-> data[period + i].date,
      upto |-> IF i <= Len(rsiValues) THEN rsiValues[i].upto ELSE 0,
      value |-> IF i > Len(rsiValues) \/ rsiValues[i].value = 0 THEN 50
                ELSE rsiValues[i].value]]

\* renderRSI: nothing is drawn when rsiValues is empty
RenderRsi(n, period, zeros) ==
  /\ probe' = [n |-> n, period |-> period,
               rsiData |-> IF Len(RsiCalculate(n, period, zeros)) = 0 THEN << >>
                           ELSE RsiData(SeriesOf(n), period, RsiCalculate(n, period, zeros))]
  /\ UNCHANGED <<propMode, drawings, zoomT, seriesT, shown, env, drawEnv, preview, btn,
                 ptr, pan, pendingClick, nZoom, lastEvent>>

RsiNext ==
  \E n \in 1..MaxPoints, period \in 1..MaxPoints :
    \E zeros \in SUBSET (1..Max(0, n - period)) : RenderRsi(n, period, zeros)

SpecRsi == Init /\ [][RsiNext]_vars

(***************************************************************************)
(* The domains of the scales renderChart builds, as a function of the      *)
(* series.  Point j has date j * Day; prices are integers and the price    *)
(* domain is in tenths of them.                                            *)
(***************************************************************************)
MaxSeries == 4

\* low and high of a candle (open and close lie between them)
CandleRanges == {[low |-> 100, high |-> 100], [low |-> 100, high |-> 110],
                 [low |-> 105, high |-> 105]}

SeriesInputs == UNION {[1..n -> CandleRanges] : n \in 0..MaxSeries}

SetMin(S) == CHOOSE m \in S : \A e \in S : m <= e
SetMax(S) == CHOOSE m \in S : \A e \in S : m >= e

\* d3.extent(data, d => d.date)
TimeDomain(data) == [lo |-> Day, hi |-> Len(data) * Day]

\* [priceExtent[0] - pricePadding, priceExtent[1] + pricePadding]
PriceDomain(data) ==
  LET lo == SetMin({data[j].low : j \in 1..Len(data)})
      hi == SetMax({data[j].high : j \in 1..Len(data)})
  IN  [lo |-> 10 * lo - (hi - lo), hi |-> 10 * hi + (hi - lo)]

\* the effect on [data, config]: if (!data.length) return; renderChart()
RenderSeries(data) ==
  /\ probe' = IF Len(data) = 0 THEN [data |-> data, rendered |-> FALSE]
              ELSE [data |-> data, rendered |-> TRUE, time |-> TimeDomain(data),
                    price |-> PriceDomain(data)]
  /\ UNCHANGED <<propMode, drawings, zoomT, seriesT, shown, env, drawEnv, preview, btn,
                 ptr, pan, pendingClick, nZoom, lastEvent>>

DomainNext == \E data \in SeriesInputs : RenderSeries(data)

SpecDomain == Init /\ [][DomainNext]_vars

(***************************************************************************)
(* Properties                                                              *)
(***************************************************************************)
\* indices of the committed drawings under a point, as click.drawing tests them
HitsAt(p) ==
  {i \in 1..Len(drawings) :
     isPointOnDrawing(p.x, p.y, drawings[i], BoundsTransform(zoomT))}

\* C1: every drawing on the committed list was committed with a displacement
\* above the threshold (more than 1000 ms in time or more than 0.01 in value), so
\* no committed drawing has start = end.
C1_CommittedMoved ==
  \A i \in 1..Len(drawings) :
    Moved(drawings[i]) /\ drawings[i].start # drawings[i].end

\* C2: a press inside the plot while a drawing mode is set up starts a drawing
\* whose start and end are the pointer position inverted through the scales
\* rescaled by the zoom transform in force at that moment.
C2_StartUsesLiveTransform ==
  [][(btn = None /\ btn' # None /\ drawEnv.live /\ ~OutsidePlot(ptr) /\ ~pan'.active)
       => /\ drawEnv'.drawing
          /\ drawEnv'.currentDrawing.start = DomainOf(zoomT, ptr)
          /\ drawEnv'.currentDrawing.end = DomainOf(zoomT, ptr)]_vars

\* the pixel positions renderDrawings gives the anchors of a drawing
PixelsOf(T, d) ==
  [x1 |-> XScale(T, d.start.x), y1 |-> YScale(T, d.start.y),
   x2 |-> XScale(T, d.end.x), y2 |-> YScale(T, d.end.y)]

\* C3: every committed drawing is on the chart, at the pixel position the scales
\* that drew the price series give its stored anchors.
C3_DrawingsFollowSeries ==
  /\ shown.list = drawings
  /\ \A i \in 1..Len(drawings) :
       PixelsOf(shown.T, drawings[i]) = PixelsOf(seriesT, drawings[i])

\* C4: a step leaves the committed list as it is, appends one object at its end,
\* or removes the selected object; the objects that stay keep their anchors.
C4_CommittedImmutable ==
  [][\/ drawings' = drawings
     \/ /\ Len(drawings') = Len(drawings) + 1
        /\ SubSeq(drawings', 1, Len(drawings)) = drawings
     \/ /\ env.selectedDrawing \in 1..Len(drawings)
        /\ Len(drawings') = Len(drawings) - 1
        /\ \A i \in 1..Len(drawings') :
             drawings'[i] = drawings[IF i < env.selectedDrawing THEN i ELSE i + 1]]_vars

\* a committed drawing, a second draw under way with its end moved, on a zoomed chart
C4_Witness ==
  /\ Len(drawings) = 2
  /\ drawings[1] # drawings[2]
  /\ zoomT # ZoomIdentity
  /\ drawEnv.drawing
  /\ drawEnv.currentDrawing # None
  /\ drawEnv.currentDrawing.start # drawEnv.currentDrawing.end

\* C5: a click inside the plot in select mode selects the matching drawing
\* committed most recently, and clears the selection when no drawing matches.
C5_SelectsMostRecent ==
  [][(pendingClick /\ ~pendingClick' /\ env.mode = "none" /\ ~OutsidePlot(ptr))
       => IF HitsAt(ptr) = {}
            THEN env'.selectedDrawing = 0
            ELSE /\ env'.selectedDrawing \in HitsAt(ptr)
                 /\ \A i \in HitsAt(ptr) : i <= env'.selectedDrawing]_vars

\* the click was on two drawings and selected the later one
C5_Witness ==
  /\ ~pendingClick
  /\ btn = None
  /\ HitsAt(ptr) = {1, 2}
  /\ env.selectedDrawing = 2

C7_SelectionCleared ==
  [][/\ propMode' # "none" => env'.selectedDrawing = 0
     /\ (pendingClick /\ ~pendingClick' /\ HitsAt(ptr) = {}) => env'.selectedDrawing = 0
     /\ env'.selectedDrawing \in 0..Len(drawings')]_vars

\* C8: when the pointer leaves the plot during a draw, the draw is over: no
\* current drawing, no preview, nothing appended.
C8_LeaveAborts ==
  [][(drawEnv.live /\ drawEnv.drawing /\ btn # None /\ ~pan.active
        /\ ~OutsidePlot(ptr) /\ OutsidePlot(ptr'))
       => /\ ~drawEnv'.drawing
          /\ drawEnv'.currentDrawing = None
          /\ preview' = None
          /\ drawings' = drawings]_vars

\* C9: a point at half the tolerance from a segment, beside any part of it, is on
\* the line; a point at twice the tolerance is not.
C9_ToleranceBand ==
  probe # None =>
    /\ probe.off = ProbeNear => probe.hit
    /\ probe.off = ProbeFar => ~probe.hit

\* C10: a wheel event with no modifier zooms the time axis alone, with shift the
\* price axis alone, with ctrl or cmd both axes.
C10_WheelByModifier ==
  (lastEvent # None /\ lastEvent.type = "wheel") =>
    lastEvent.axes = CASE lastEvent.mod = "none" -> {"time"}
                       [] lastEvent.mod = "shift" -> {"price"}
                       [] OTHER -> {"time", "price"}

\* the visible time domain and the visible price domain of the last updateChart
TimeView(pr) == [k |-> pr.time.k, t |-> pr.time.x]
PriceView(pr) == [k |-> pr.price.k, t |-> pr.price.y]

C12_ScaleWithinExtent ==
  probe # None =>
    /\ probe.k >= MinScale /\ probe.k <= MaxScaleOf(probe.rev) /\ probe.k <= MaxScale
    /\ probe.request > MaxScaleOf(probe.rev) => probe.k = MaxScaleOf(probe.rev)
    /\ probe.request < MinScale => probe.k = MinScale
    /\ (probe.request >= MinScale /\ probe.request <= MaxScaleOf(probe.rev))
         => probe.k = probe.request

\* a request from 32 to beyond 50 left the factor at 50
C12_Witness ==
  /\ probe # None
  /\ probe.rev = "part_001"
  /\ probe.from = 32 * KRes
  /\ probe.request > MaxScale
  /\ probe.k = MaxScale

\* C13: after any sequence of pans the pixels of the series' time range meet the
\* plot's width, and the pixels of its price range meet the plot's height.
C13_DataOnScreen ==
  probe # None =>
    /\ XScale(probe.T, DateLo) <= width /\ XScale(probe.T, DateHi) >= 0
    /\ YScale(probe.T, PriceHi) <= height /\ YScale(probe.T, PriceLo) >= 0

\* C14: the time and the price drawn at the pointer's pixel before a wheel zoom
\* are drawn at the same pixel after it.
C14_AnchorFixed ==
  [][(\E mod \in Mods, dir \in {1, -1} : Wheel(mod, dir)) =>
       /\ XScale(seriesT', XInvert(seriesT, ptr.x)) = ptr.x
       /\ YScale(seriesT', YInvert(seriesT, ptr.y)) = ptr.y]_vars

\* C15: a redraw for a zoom or pan event leaves the number of indicator calculations
\* as it was.
C15_NoIndicatorMath ==
  [][ViewportChanged => probe'.calcs = probe.calcs]_vars

\* C16: a second redraw with the same transform leaves the plot with the same
\* elements as the first, whatever the chart type.
C16_RedrawIdempotent ==
  [][ViewportChanged => probe'.els = probe.els]_vars

\* C17: the bands of the panels are pairwise non-overlapping and all lie within
\* the plot's height.
C17_PanelsDisjoint ==
  probe # None =>
    /\ \A i \in 1..Len(probe.bands) :
         probe.bands[i].top >= 0 /\ probe.bands[i].bottom <= probe.height
    /\ \A i, j \in 1..Len(probe.bands) :
         i < j => \/ probe.bands[i].bottom <= probe.bands[j].top
                  \/ probe.bands[j].bottom <= probe.bands[i].top

\* C18: the applied indicators have pairwise distinct ids after any sequence of
\* additions and removals.
C18_IdsDistinct ==
  \A i, j \in 1..Len(AppliedNow) : i # j => AppliedNow[i].id # AppliedNow[j].id

\* C19: every committed drawing has one of the six kinds that are rendered and
\* hit-tested, whichever tool was active when it was drawn.
C19_KindsRendered ==
  \A i \in 1..Len(KindsNow.ds) : KindsNow.ds[i].type \in RenderedKinds

\* the axis named by the displacement between the two fingers at touch-start
ClassifiedAxes(span) ==
  IF 2 * Abs(span.x) > 3 * Abs(span.y) THEN {"time"}
  ELSE IF 2 * Abs(span.y) > 3 * Abs(span.x) THEN {"price"}
  ELSE {"time", "price"}

\* C20: a two-finger gesture zooms the axes named by the displacement of its two
\* fingers at touch-start (|dx| > 1.5 |dy| time, |dy| > 1.5 |dx| price, otherwise
\* both); with one finger left no second touch is kept and the finger left is
\* anchored anew.
C20_TouchClassified ==
  probe # None =>
    /\ (probe.fingers = 2 /\ probe.spread) => probe.axes = ClassifiedAxes(probe.span)
    /\ (probe.fingers = 1 /\ probe.touch0 # None) => probe.touch1 = None

\* C21: at most one preview exists, it shows the drawing in progress, a move
\* leaves the committed list as it was, and no preview exists when no draw is
\* in progress.
C21_OnePreview ==
  [][/\ Len(probe'.layers) <= 1
     /\ Len(probe'.layers) = 1 => probe'.layers[1] = probe'.de.currentDrawing
     /\ ~probe'.de.drawing => probe'.layers = << >>
     /\ (\E p \in DragEnds : DragTo(p)) => probe'.ds = KindsNow.ds]_vars

\* a preview during the second move of a draw, with one drawing committed before
C21_Witness ==
  /\ probe # None
  /\ Len(probe.ds) = 1
  /\ probe.de.drawing
  /\ Len(probe.layers) = 1
  /\ probe.layers[1].end # probe.ds[1].end

\* the level lines as renderFibonacci draws them: horizontal segments between the
\* pixels of the drawing's start x and end x; the distance of (x, y) to one of
\* them is at most the tolerance
NearFibLevel(d, x, y) ==
  LET sx == XScale(ZoomIdentity, d.start.x)
      ex == XScale(ZoomIdentity, d.end.x)
      sy == YScale(ZoomIdentity, d.start.y)
      ey == YScale(ZoomIdentity, d.end.y)
      dx == IF x < Min(sx, ex) THEN Min(sx, ex) - x
            ELSE IF x > Max(sx, ex) THEN x - Max(sx, ex) ELSE 0
  IN  /\ dx <= tolerance
      /\ \E level \in fibLevels :
           LET dy == 1000 * (y - sy) - (ey - sy) * level
           IN  Abs(dy) <= 1000 * tolerance
               /\ 1000000 * dx * dx + dy * dy <= 1000000 * tolerance * tolerance

\* C22: a click hits a fibonacci drawing exactly when it is within the tolerance
\* of one of the seven level lines as rendered.
C22_FibHitsLevels ==
  probe # None => (probe.hit <=> NearFibLevel(probe.d, probe.x, probe.y))

\* C23: the price band is shorter with each oscillator added, and each oscillator's
\* band starts where the band before it in the list ends.
C23_PanelsStacked ==
  probe # None =>
    /\ Len(probe.inds) >= 1 =>
         probe.bands[1].bottom <
           Bands(probe.height, SubSeq(probe.inds, 1, Len(probe.inds) - 1))[1].bottom
    /\ \A i \in 3..Len(probe.bands) : probe.bands[i].top = probe.bands[i - 1].bottom

C25_RsiAligned ==
  (probe # None /\ probe.n > probe.period) =>
    /\ Len(probe.rsiData) = probe.n - probe.period
    /\ \A i \in 1..Len(probe.rsiData) :
         /\ probe.rsiData[i].date = SeriesOf(probe.n)[i + probe.period].date
         /\ probe.rsiData[i].upto = i + probe.period

\* RSI(2) on six points: four points drawn
C25_Witness ==
  /\ probe # None
  /\ probe.n = MaxPoints
  /\ probe.period = 2
  /\ Len(probe.rsiData) = MaxPoints - 2

\* C26: the time scale and the price scale of a rendered chart have domains of
\* non-zero width, for a single-point series too.
C26_DomainsNotDegenerate ==
  (probe # None /\ probe.rendered) =>
    /\ probe.time.hi > probe.time.lo
    /\ probe.price.hi > probe.price.lo

\* C27: from the mousedown that starts a draw to the mouseup that ends it the zoom
\* transform stays as it is, and the mousedown that starts a draw starts no pan.
C27_NoZoomWhileDrawing ==
  [][/\ drawEnv.drawing => zoomT' = zoomT
     /\ (~drawEnv.drawing /\ drawEnv'.drawing) => ~pan'.active]_vars

\* C28: pointer events are handled under the mode chosen last in the toolbar: a
\* draw that starts has that mode as its kind, a mousedown with no key over the
\* plot starts a draw when a tool is chosen, and a click changes the selection
\* only when the mode chosen is none.
C28_ModeIsCurrent ==
  [][/\ (~drawEnv.drawing /\ drawEnv'.drawing) => drawEnv'.currentDrawing.type = propMode
     /\ (MouseDown("none") /\ propMode # "none" /\ ~OutsidePlot(ptr)) => drawEnv'.drawing
     /\ (Click /\ env'.selectedDrawing # env.selectedDrawing) => propMode = "none"]_vars

\* C29: with mode none chosen and the chart set up in mode none, no event starts
\* a draw and none lengthens the committed list.
C29_SelectModeDrawsNothing ==
  [][(propMode = "none" /\ env.mode = "none") =>
       /\ ~drawEnv.drawing => ~drawEnv'.drawing
       /\ Len(drawings') <= Len(drawings)]_vars

====
